---------------------------- MODULE Spec2Model ----------------------------
(* Boggle and Inverse Boggle (src/ipynb/Boggle.ipynb).                     *)
(*                                                                         *)
(* A Python string is a sequence of one-character strings, so that         *)
(* concatenation, prefixes and comparison are computed, not assumed.       *)
(* A Board is a record: n, squares (row-major list), neighbors (a list per *)
(* square) and tiles (the dict itself, {(x, y): L}).  Boards live in a     *)
(* heap of objects and are held by reference, as in Python.                *)
EXTENDS Integers, Sequences, FiniteSets, TLC

VARIABLES letters, heap, arg, board, words, prefixes, repeat, i, best_score,
          pc, calls, found, score, stack, start

vars == <<letters, heap, arg, board, words, prefixes, repeat, i, best_score,
          pc, calls, found, score, stack, start>>

(* ------------------------------ bounds -------------------------------- *)

\* longest flat letter sequence handed to the Board constructor
MaxLetters == 5

\* largest iteration count `repeat` of one boggle_hill_climbing call
MaxRepeat == 1

(* ------------------------------ strings ------------------------------- *)

Range(f) == {f[k] : k \in DOMAIN f}

AZ == <<"A", "B", "C", "D", "E", "F", "G", "H", "I", "J", "K", "L", "M",
        "N", "O", "P", "Q", "R", "S", "T", "U", "V", "W", "X", "Y", "Z">>

\* code point of a character: space, the capitals, and lower-case a
Ord(c) == IF c = " " THEN 32
          ELSE IF c = "a" THEN 97
          ELSE 64 + (CHOOSE k \in 1..26 : AZ[k] = c)

\* Python's a <= b on strings: lexicographic on code points
RECURSIVE StrLeq(_, _)
StrLeq(a, b) ==
    IF a = <<>> THEN TRUE
    ELSE IF b = <<>> THEN FALSE
    ELSE IF Ord(Head(a)) < Ord(Head(b)) THEN TRUE
    ELSE IF Ord(Head(a)) > Ord(Head(b)) THEN FALSE
    ELSE StrLeq(Tail(a), Tail(b))

\* x in list
InSeq(x, seq) == \E k \in 1..Len(seq) : seq[k] = x

\* [f(x) for x in seq]
RECURSIVE Normalize(_)
Normalize(seq) ==
    IF seq = <<>> THEN <<>>
    ELSE <<(IF Head(seq) = <<"Q">> THEN <<"Q", "U">> ELSE Head(seq))>>
         \o Normalize(Tail(seq))

\* int(k ** 0.5)
Isqrt(k) == CHOOSE r \in 0..k : r * r <= k /\ (r + 1) * (r + 1) > k

(* ------------------------------- Board -------------------------------- *)

Offsets == <<-1, 0, 1>>

DxDy == [k \in 1..9 |-> <<Offsets[((k - 1) \div 3) + 1], Offsets[((k - 1) % 3) + 1]>>]

neighbors(square, n) ==
    LET x == square[1]
        y == square[2]
        Keep(d) == /\ 0 <= x + d[1] /\ x + d[1] < n
                   /\ 0 <= y + d[2] /\ y + d[2] < n
                   /\ ~(d[1] = d[2] /\ d[2] = 0)
        kept == SelectSeq(DxDy, Keep)
    IN  [k \in 1..Len(kept) |-> <<x + kept[k][1], y + kept[k][2]>>]

SquaresColumnMajor(n) == [k \in 1..(n * n) |-> <<(k - 1) \div n, (k - 1) % n>>]

\* [(x, y) for y in range(n) for x in range(n)]
Squares(n) == [k \in 1..(n * n) |-> <<(k - 1) % n, (k - 1) \div n>>]

\* [('QU' if L == 'Q' else L) for L in letters if 'A' <= L <= 'Z']
Tiles(ls) ==
    LET IsLetter(L) == StrLeq(<<"A">>, L) /\ StrLeq(L, <<"Z">>)
    IN  Normalize(SelectSeq(ls, IsLetter))

\* dict.update(zip(keys, values)): pairs up to the shorter list, later pairs win
ZipUpdate(keys, values) ==
    LET m == IF Len(keys) < Len(values) THEN Len(keys) ELSE Len(values)
    IN  [sq \in {keys[k] : k \in 1..m} |->
            values[CHOOSE k \in 1..m : keys[k] = sq /\ \A j \in (k + 1)..m : keys[j] # sq]]

\* Board.__init__ (the print format is left out: it does not reach the dict)
Board(ls) ==
    LET tl == Tiles(ls)
        n  == Isqrt(Len(tl))
        sq == Squares(n)
    IN  [n         |-> n,
         squares   |-> sq,
         neighbors |-> [s \in Range(sq) |-> neighbors(s, n)],
         tiles     |-> ZipUpdate(sq, tl)]

\* board[s] = L
SetTile(b, s, L) == [b EXCEPT !.tiles[s] = L]


(* ----------------------------- dictionary ----------------------------- *)

\* WORDS: enable1.txt is not part of the repository; this is the part of it
\* that the boards of the model can spell (tiles A, T, Q, QU), together with
\* words of every payout tier taken from the notebook's own output.
WORDS == {<<"A", "T", "T">>, <<"T", "A", "T">>, <<"Q", "A", "T">>, <<"Q", "U", "A">>,
          <<"A", "Q", "U", "A">>, <<"Q", "U", "E", "S", "T">>, <<"Q", "U", "E", "S", "T", "S">>,
          <<"A", "N", "S", "W", "E", "R", "S">>, <<"Q", "U", "E", "S", "T", "I", "O", "N">>,
          <<"Q", "U", "E", "S", "T", "I", "O", "N", "S">>, <<"Q", "U", "E", "S", "T", "I", "O", "N", "E", "R">>}

\* a caller's own word list: one entry of WORDS and one string WORDS lacks
OtherWords == {<<"Q", "A", "T">>, <<"T", "A", "A">>}

\* {word[:i] for word in words for i in range(1, len(word)-1)}
WordPrefixesShort(ws) == {SubSeq(wd, 1, k) : <<wd, k>> \in
                            UNION {{<<v, j>> : j \in 1..(Len(v) - 2)} : v \in ws}}

\* {word[:i] for word in words for i in range(1, len(word))}
word_prefixes(ws) == {SubSeq(wd, 1, k) : <<wd, k>> \in
                        UNION {{<<v, j>> : j \in 1..(Len(v) - 1)} : v \in ws}}

PREFIXES == word_prefixes(WORDS)

(* ----------------------------- find_words ----------------------------- *)

\* continue_path without the test `s not in path`
RECURSIVE continue_path_revisit(_, _, _, _, _)
continue_path_revisit(b, ws, ps, path, prefix) ==
    LET here   == IF prefix \in ws THEN {prefix} ELSE {}
        nb     == b.neighbors[path[Len(path)]]
        deeper == IF prefix \in ps
                  THEN UNION {continue_path_revisit(b, ws, ps, Append(path, nb[k]),
                                                    prefix \o b.tiles[nb[k]]) :
                              k \in 1..Len(nb)}
                  ELSE {}
    IN  here \cup deeper

\* the strings that continue_path(path, prefix) adds to `found`
RECURSIVE continue_path(_, _, _, _, _)
continue_path(b, ws, ps, path, prefix) ==
    LET here   == IF prefix \in ws THEN {prefix} ELSE {}
        nb     == b.neighbors[path[Len(path)]]
        deeper == IF prefix \in ps
                  THEN UNION {continue_path(b, ws, ps, Append(path, nb[k]),
                                            prefix \o b.tiles[nb[k]]) :
                              k \in {j \in 1..Len(nb) : ~InSeq(nb[j], path)}}
                  ELSE {}
    IN  here \cup deeper

find_words(b, ws, ps) ==
    UNION {continue_path(b, ws, ps, <<b.squares[k]>>, b.tiles[b.squares[k]]) :
           k \in 1..Len(b.squares)}

(* ----------------------------- total_score ---------------------------- *)

\* [0, 0, 0, 1, 1, 2, 3, 5] + [11] * 99, indexed from 0
scores == <<0, 0, 0, 1, 1, 2, 3, 5>> \o [k \in 1..99 |-> 11]

RECURSIVE SumScores(_)
SumScores(S) ==
    IF S = {} THEN 0
    ELSE LET wd == CHOOSE x \in S : TRUE
         IN  scores[Len(wd) + 1] + SumScores(S \ {wd})

\* total_score that forgets the intersection with WORDS
total_score_unfiltered(fnd) == SumScores(fnd)

\* sum([scores[len(w)] for w in found & WORDS])
total_score(fnd) == SumScores(fnd \cap WORDS)

(* ------------------------------ LETTERS -------------------------------- *)

\* 3 * 'AABCDEEEGHIILMNOOPRSTUY' + 'AADEFFIJKKLLNNQRSSTTUVVWWXZ', cut down to
\* the letters A, T and Q of the model: the pool holds every letter of the
\* alphabet, Q among them, and Q once
LETTERS == <<"A", "A", "T", "A", "A", "T", "A", "A", "T", "A", "A", "Q", "T", "T">>

\* mutate_boggle with s = random.choice(board.squares) and the letter
\* random.choice(letters) already drawn: returns the board written, with
\* s and old_letter
mutate_boggle(b, s, L) ==
    [board |-> SetTile(b, s, <<L>>), s |-> s, old_letter |-> b.tiles[s]]

(* ------------------------ inputs of the model ------------------------- *)

\* all sequences over S of length at most k
SeqsUpTo(S, k) == UNION {[1..m -> S] : m \in 0..k}

\* the characters a flat letter sequence is made of: a space, two capitals
\* (one of them Q) and a lower-case letter
BoardChars == {<<" ">>, <<"A">>, <<"Q">>, <<"a">>}

(* ------------------- SpecBoard: the Board constructor ------------------ *)

InitBoard ==
    /\ stack = <<>> /\ start = 0
    /\ letters \in SeqsUpTo(BoardChars, MaxLetters)
    /\ heap = <<>>
    /\ arg = 0
    /\ pc = "new"
    /\ board = 0 /\ words = {} /\ prefixes = {} /\ repeat = 0 /\ i = 0
    /\ best_score = 0 /\ calls = 0 /\ found = {} /\ score = 0

\* b = Board(letters): the constructor has no raise and no early return, so
\* every letter sequence yields a Board object
Construct ==
    /\ pc = "new"
    /\ heap' = Append(heap, Board(letters))
    /\ arg' = Len(heap')
    /\ pc' = "built"
    /\ UNCHANGED <<stack, start, letters, board, words, prefixes, repeat, i, best_score,
                   calls, found, score>>

NextBoard == Construct

SpecBoard == InitBoard /\ [][NextBoard]_vars

\* the letters A-Z of an input, in order, each Q turned into the tile QU
RECURSIVE KeptTiles(_)
KeptTiles(ls) ==
    IF ls = <<>> THEN <<>>
    ELSE LET c == Head(ls)[1]
         IN  (IF Len(Head(ls)) = 1 /\ c \in Range(AZ)
              THEN <<(IF c = "Q" THEN <<"Q", "U">> ELSE <<c>>)>>
              ELSE <<>>) \o KeptTiles(Tail(ls))

IsSquareCount(k) == \E r \in 1..k : r * r = k

\* C5: when the number of tiles left after filtering and Q-normalization is
\* zero or not a perfect square, construction fails and produces no grid.
C5_RejectsBadSizes ==
    (pc = "built" /\ ~IsSquareCount(Len(KeptTiles(letters)))) => arg = 0

NonWords == {<<>>, <<"A">>, <<"A", "T">>, <<"T", "A", "A">>, <<"T", "A", "T", "A">>,
             <<"Q", "U", "A", "T", "T", "A", "Q", "U", "A">>}

InitScore ==
    /\ stack = <<>> /\ start = 0
    /\ found \in SUBSET (WORDS \cup NonWords)
    /\ pc = "words"
    /\ score = 0
    /\ letters = <<>> /\ heap = <<>> /\ arg = 0 /\ board = 0
    /\ words = {} /\ prefixes = {} /\ repeat = 0 /\ i = 0
    /\ best_score = 0 /\ calls = 0

\* score = total_score(found)
Score ==
    /\ pc = "words"
    /\ score' = total_score(found)
    /\ pc' = "scored"
    /\ UNCHANGED <<stack, start, letters, heap, arg, board, words, prefixes, repeat, i,
                   best_score, calls, found>>

NextScore == Score

SpecScore == InitScore /\ [][NextScore]_vars

\* the payout of a word by its length
payout(len) ==
    CASE len <= 2 -> 0
      [] len = 3  -> 1
      [] len = 4  -> 1
      [] len = 5  -> 2
      [] len = 6  -> 3
      [] len = 7  -> 5
      [] len >= 8 -> 11

RECURSIVE SumPayout(_)
SumPayout(S) ==
    IF S = {} THEN 0
    ELSE LET wd == CHOOSE x \in S : TRUE
         IN  payout(Len(wd)) + SumPayout(S \ {wd})

\* C6: total_score(found) is the sum of payout(len(w)) over exactly the
\* strings of found that are in the word set; the other strings of found
\* contribute zero.
C6_TotalScore ==
    pc = "scored" => score = SumPayout({wd \in found : wd \in WORDS})

\* a found set with words of lengths 3, 4 and 10 and two strings that are
\* no words, scored 1 + 1 + 11
C6_Witness ==
    /\ pc = "scored"
    /\ found = {<<"T", "A", "T">>, <<"A", "Q", "U", "A">>,
                <<"Q", "U", "E", "S", "T", "I", "O", "N", "E", "R">>,
                <<"T", "A", "A">>, <<"A", "T">>}
    /\ score = 13

(* ----------------------- SpecFind: find_words -------------------------- *)

SeqsOfLen(S, k) == [1..k -> S]

\* the letter sequences a board is built from: every sequence of pool
\* letters for the 0 x 0, 1 x 1 and 2 x 2 boards, and every sequence of
\* A and Q for the 3 x 3 board
FindInputs ==
    UNION {SeqsOfLen({<<c>> : c \in Range(LETTERS)}, n * n) : n \in {0, 1, 2}}
    \cup SeqsOfLen({<<"A">>, <<"Q">>}, 9)

\* the word sets and prefix sets a caller passes: the default pair, the
\* caller's own list with its prefixes, and the two mismatched pairs
FindDicts == {[words |-> w, prefixes |-> word_prefixes(v)] :
              w \in {WORDS, OtherWords}, v \in {WORDS, OtherWords}}

InitFind ==
    /\ stack = <<>> /\ start = 0
    /\ letters \in FindInputs
    /\ heap = <<Board(letters)>>
    /\ arg = 1
    /\ \E d \in FindDicts : words = d.words /\ prefixes = d.prefixes
    /\ pc = "board"
    /\ found = {}
    /\ board = 0 /\ repeat = 0 /\ i = 0 /\ best_score = 0 /\ calls = 0
    /\ score = 0

\* mutate_boggle(b): one random change, which may leave a bare Q on the board
FindMutate ==
    /\ pc = "board"
    /\ \E k \in 1..Len(heap[arg].squares), L \in Range(LETTERS) :
          heap' = [heap EXCEPT ![arg] =
                      mutate_boggle(heap[arg], heap[arg].squares[k], L).board]
    /\ pc' = "mutated"
    /\ UNCHANGED <<stack, start, letters, arg, board, words, prefixes, repeat, i,
                   best_score, calls, found, score>>

\* found = find_words(b, words, prefixes)
FindWords ==
    /\ pc \in {"board", "mutated"}
    /\ found' = find_words(heap[arg], words, prefixes)
    /\ pc' = "found"
    /\ UNCHANGED <<stack, start, letters, heap, arg, board, words, prefixes, repeat, i,
                   best_score, calls, score>>

NextFind == FindMutate \/ FindWords

SpecFind == InitFind /\ [][NextFind]_vars

\* the cells at Chebyshev distance 1
Adjacent(c, d) ==
    /\ c # d
    /\ c[1] - d[1] \in {-1, 0, 1}
    /\ c[2] - d[2] \in {-1, 0, 1}

IsPrefixOf(p, wd) == Len(p) <= Len(wd) /\ SubSeq(wd, 1, Len(p)) = p

\* `rest` is the concatenation of the tiles along some path that goes on
\* from cell `last` through adjacent cells of the grid outside `visited`
RECURSIVE SpelledFrom(_, _, _, _)
SpelledFrom(b, visited, last, rest) ==
    \/ rest = <<>>
    \/ \E c \in DOMAIN b.tiles :
          /\ c \notin visited
          /\ Adjacent(last, c)
          /\ IsPrefixOf(b.tiles[c], rest)
          /\ SpelledFrom(b, visited \cup {c}, c,
                         SubSeq(rest, Len(b.tiles[c]) + 1, Len(rest)))

\* wd is spelled by the tiles along a path of adjacent, non-repeating cells
OnBoard(b, wd) ==
    \E c \in DOMAIN b.tiles :
        /\ IsPrefixOf(b.tiles[c], wd)
        /\ SpelledFrom(b, {c}, c, SubSeq(wd, Len(b.tiles[c]) + 1, Len(wd)))

\* C1: every string find_words returns is in words and is the concatenation
\* of the tiles along a path of grid cells whose consecutive cells are
\* 8-directionally adjacent and none of which occurs twice.
C1_Soundness ==
    pc = "found" => \A wd \in found : wd \in words /\ OnBoard(heap[arg], wd)

\* a 3 x 3 board on which AQUA is found although other A's lie out of reach
C1_Witness ==
    /\ pc = "found"
    /\ heap[arg].n = 3
    /\ <<"A", "Q", "U", "A">> \in found
    /\ \E c, d \in DOMAIN heap[arg].tiles :
          /\ heap[arg].tiles[c] = <<"A">>
          /\ heap[arg].tiles[d] = <<"Q", "U">>
          /\ ~Adjacent(c, d)

\* C2: when prefixes = word_prefixes(words), every word of the dictionary
\* spelled along a path of adjacent, non-repeating cells is returned by
\* find_words.
C2_Completeness ==
    (pc = "found" /\ prefixes = word_prefixes(words)) =>
        \A wd \in words : OnBoard(heap[arg], wd) => wd \in found

\* a 3 x 3 board on which AQUA lies and is found under the default
\* dictionary, while QAT does not lie on it
C2_Witness ==
    /\ pc = "found"
    /\ prefixes = word_prefixes(words)
    /\ heap[arg].n = 3
    /\ OnBoard(heap[arg], <<"A", "Q", "U", "A">>)
    /\ <<"A", "Q", "U", "A">> \in found
    /\ ~OnBoard(heap[arg], <<"Q", "A", "T">>)

(* ------------------ Spec: boggle_hill_climbing ------------------------- *)

Count(c, seq) == Cardinality({k \in 1..Len(seq) : seq[k] = c})

\* random.sample(letters, k): k picks at distinct positions of the pool
Sample(pool, k) ==
    {sq \in SeqsOfLen(Range(pool), k) :
        \A c \in Range(pool) : Count(c, sq) <= Count(c, pool)}

\* random_board(n): Board(random.sample(letters, n * n)), as the flat
\* sequences the constructor receives, for the sides 0, 1 and 2
RandomBoardInputs ==
    UNION {{[k \in 1..Len(sq) |-> <<sq[k]>>] : sq \in Sample(LETTERS, n * n)} :
           n \in {0, 1, 2}}

\* the dictionaries boggle_hill_climbing is called with: the defaults, and
\* a caller's own word list with its prefixes
ClimbDicts == {[words |-> w, prefixes |-> word_prefixes(w)] : w \in {WORDS, OtherWords}}

Init ==
    /\ stack = <<>> /\ start = 0
    /\ letters \in RandomBoardInputs
    /\ heap = <<Board(letters)>>
    /\ arg = 1
    /\ board = 0
    /\ \E d \in ClimbDicts : words = d.words /\ prefixes = d.prefixes
    /\ repeat = 0
    /\ i = 0
    /\ best_score = 0
    /\ pc = "idle"
    /\ calls = 0
    /\ found = {}
    /\ score = 0

\* `board = board`: no copy, the local name is bound to the caller's object
CopyAlias(h, a) == [heap |-> h, ref |-> a]

\* board = Board(board[s] for s in board.squares): a new object on the heap
CopyBoard(h, a) ==
    LET b == h[a]
        h2 == Append(h, Board([k \in 1..Len(b.squares) |-> b.tiles[b.squares[k]]]))
    IN  [heap |-> h2, ref |-> Len(h2)]

\* entry of boggle_hill_climbing(heap[a], words, prefixes, r): the copy and
\* the first score
Enter(a, r) ==
    LET c == CopyBoard(heap, a)
    IN  /\ arg' = a
        /\ heap' = c.heap
        /\ board' = c.ref
        /\ best_score' = total_score(find_words(c.heap[c.ref], words, prefixes))
        /\ repeat' = r
        /\ i' = 0
        /\ pc' = "loop"
        /\ calls' = calls + 1
        /\ UNCHANGED <<stack, start, letters, words, prefixes, found, score>>

\* the caller passes the board it built
Call ==
    /\ pc = "idle"
    /\ \E r \in 0..MaxRepeat : Enter(arg, r)

\* the caller passes the board that its first call returned
CallAgain ==
    /\ pc = "done"
    /\ calls = 1
    /\ \E r \in 0..MaxRepeat : Enter(board, r)

\* the loop body with `>` for `>=` and no `else`
LoopBodyNoRevert(b, best, ws, ps, s, L) ==
    LET m         == mutate_boggle(b, s, L)
        new_score == total_score(find_words(m.board, ws, ps))
    IN  IF new_score > best
        THEN [board |-> m.board, best_score |-> new_score]
        ELSE [board |-> m.board, best_score |-> best]

\* one pass of the loop body, the random square s and letter L drawn
LoopBody(b, best, ws, ps, s, L) ==
    LET m         == mutate_boggle(b, s, L)
        new_score == total_score(find_words(m.board, ws, ps))
    IN  IF new_score >= best
        THEN [board |-> m.board, best_score |-> new_score]
        ELSE [board |-> SetTile(m.board, m.s, m.old_letter), best_score |-> best]

Iterate ==
    /\ pc = "loop"
    /\ i < repeat
    /\ \E k \in 1..Len(heap[board].squares), L \in Range(LETTERS) :
          LET r == LoopBody(heap[board], best_score, words, prefixes,
                            heap[board].squares[k], L)
          IN  /\ heap' = [heap EXCEPT ![board] = r.board]
              /\ best_score' = r.best_score
    /\ i' = i + 1
    /\ UNCHANGED <<stack, start, letters, arg, board, words, prefixes, repeat, pc, calls,
                   found, score>>

\* random.choice(board.squares) on a board without squares: IndexError
Raise ==
    /\ pc = "loop"
    /\ i < repeat
    /\ heap[board].squares = <<>>
    /\ pc' = "raised"
    /\ UNCHANGED <<stack, start, letters, heap, arg, board, words, prefixes, repeat, i,
                   best_score, calls, found, score>>

\* return board
Return ==
    /\ pc = "loop"
    /\ i = repeat
    /\ pc' = "done"
    /\ UNCHANGED <<stack, start, letters, heap, arg, board, words, prefixes, repeat, i,
                   best_score, calls, found, score>>

Next == Call \/ CallAgain \/ Iterate \/ Raise \/ Return

Spec == Init /\ [][Next]_vars

\* total_score(find_words(b, words, prefixes)), as the optimizer computes it
ScoreOf(b) == total_score(find_words(b, words, prefixes))

\* C3: the grid boggle_hill_climbing returns has a total score greater than
\* or equal to the total score of the grid it was given.
C3_Monotone ==
    pc = "done" => ScoreOf(heap[board]) >= ScoreOf(heap[arg])

\* C4: no step of a boggle_hill_climbing call changes the grid the caller
\* passed in: the tile at every coordinate of that grid stays what it was.
C4_CallerGridUntouched ==
    [][heap'[arg'] = heap[arg']]_vars

\* a call has returned a grid that differs from the grid it was given
C4_Witness ==
    /\ pc = "done"
    /\ board # arg
    /\ repeat > 0
    /\ heap[board].tiles # heap[arg].tiles

\* C7: with repeat = 0 the grid returned has the coordinates of the grid
\* passed in and the same tile at every coordinate.
C7_ZeroIterationsCopy ==
    (pc = "done" /\ repeat = 0) =>
        /\ heap[board].squares = heap[arg].squares
        /\ \A c \in Range(heap[arg].squares) :
              heap[board].tiles[c] = heap[arg].tiles[c]

\* C9: an iteration overwrites one cell s with a letter of the pool; if the
\* score of the grid so written is >= bestScore the written grid is kept and
\* bestScore becomes that score, otherwise the grid and bestScore are what
\* they were before the iteration.
C9_AcceptOrRevert ==
    [][(pc = "loop" /\ i' = i + 1) =>
          \E c \in Range(heap[board].squares), L \in Range(LETTERS) :
              LET written   == SetTile(heap[board], c, <<L>>)
                  new_score == ScoreOf(written)
              IN  IF new_score >= best_score
                  THEN heap'[board] = written /\ best_score' = new_score
                  ELSE heap'[board] = heap[board] /\ best_score' = best_score]_vars

\* after one iteration that was kept on a tie: the grid changed, bestScore
\* did not
C9_Witness ==
    /\ pc = "loop"
    /\ i = 1
    /\ heap[board].tiles # heap[arg].tiles
    /\ best_score = ScoreOf(heap[arg])
    /\ best_score > 0

\* C10: bestScore is the total score, against the word set passed in, of the
\* words found with that word set: the sum of payout(len(w)) over the found
\* strings that are in `words`.
C10_ScoresGivenDictionary ==
    pc \in {"loop", "done"} =>
        best_score = SumPayout({wd \in find_words(heap[board], words, prefixes) :
                                  wd \in words})

\* a tile as the Board constructor leaves it: one letter A-Z other than Q,
\* or the two-character tile QU
IsNormalTile(t) ==
    \/ t = <<"Q", "U">>
    \/ Len(t) = 1 /\ t[1] \in Range(AZ) /\ t[1] # "Q"

\* C11: in every state of a run of the optimizer on a constructed grid,
\* every tile of the working grid is a single letter A-Z other than Q or is
\* exactly QU.
C11_TileInvariant ==
    pc \in {"loop", "done"} =>
        \A c \in DOMAIN heap[board].tiles : IsNormalTile(heap[board].tiles[c])

(* ------------- SpecSearch: find_words, one step at a time -------------- *)

\* the call stack of continue_path: one frame per active call, with its
\* arguments and k, the number of neighbors its for loop has taken so far
Frame(path, prefix) == [path |-> path, prefix |-> prefix, k |-> 0]

\* if prefix in words: found.add(prefix)
AddFound(prefix) == IF prefix \in words THEN found \cup {prefix} ELSE found

\* the test of line 176 dropped: every neighbor is taken
AlwaysUnvisited(s, path) == TRUE

\* s not in path
Unvisited(s, path) == ~InSeq(s, path)

\* a word list whose prefixes outlast every path of a 2 x 2 board
LongWords == {<<"A", "A", "A", "A", "A", "A">>}

SearchDicts == {[words |-> w, prefixes |-> word_prefixes(w)] :
                w \in {WORDS, OtherWords, LongWords}}

InitSearch ==
    /\ letters \in RandomBoardInputs
    /\ heap = <<Board(letters)>>
    /\ arg = 1
    /\ \E d \in SearchDicts : words = d.words /\ prefixes = d.prefixes
    /\ pc = "search"
    /\ found = {}
    /\ stack = <<>>
    /\ start = 0
    /\ board = 0 /\ repeat = 0 /\ i = 0 /\ best_score = 0 /\ calls = 0
    /\ score = 0

\* for s in board.squares: continue_path([s], board[s])
StartPath ==
    /\ pc = "search"
    /\ stack = <<>>
    /\ start < Len(heap[arg].squares)
    /\ LET s == heap[arg].squares[start + 1]
       IN  /\ stack' = <<Frame(<<s>>, heap[arg].tiles[s])>>
           /\ found' = AddFound(heap[arg].tiles[s])
    /\ start' = start + 1
    /\ UNCHANGED <<letters, heap, arg, board, words, prefixes, repeat, i,
                   best_score, pc, calls, score>>

\* one turn of `for s in board.neighbors[path[-1]]`, with the recursive
\* call when s is not in path
NextNeighbor ==
    /\ pc = "search"
    /\ stack # <<>>
    /\ LET d   == Len(stack)
           top == stack[d]
           nb  == heap[arg].neighbors[top.path[Len(top.path)]]
       IN  /\ top.prefix \in prefixes
           /\ top.k < Len(nb)
           /\ LET s     == nb[top.k + 1]
                  moved == [stack EXCEPT ![d].k = top.k + 1]
              IN  IF Unvisited(s, top.path)
                  THEN /\ stack' = Append(moved, Frame(Append(top.path, s),
                                                       top.prefix \o heap[arg].tiles[s]))
                       /\ found' = AddFound(top.prefix \o heap[arg].tiles[s])
                  ELSE /\ stack' = moved
                       /\ found' = found
    /\ UNCHANGED <<letters, heap, arg, board, words, prefixes, repeat, i,
                   best_score, pc, calls, score, start>>

\* continue_path returns: the prefix is no prefix, or the loop is over
ReturnPath ==
    /\ pc = "search"
    /\ stack # <<>>
    /\ LET top == stack[Len(stack)]
           nb  == heap[arg].neighbors[top.path[Len(top.path)]]
       IN  top.prefix \notin prefixes \/ top.k = Len(nb)
    /\ stack' = SubSeq(stack, 1, Len(stack) - 1)
    /\ UNCHANGED <<letters, heap, arg, board, words, prefixes, repeat, i,
                   best_score, pc, calls, score, start, found>>

\* return found
ReturnFound ==
    /\ pc = "search"
    /\ stack = <<>>
    /\ start = Len(heap[arg].squares)
    /\ pc' = "returned"
    /\ UNCHANGED <<letters, heap, arg, board, words, prefixes, repeat, i,
                   best_score, calls, score, start, found, stack>>

NextSearch == StartPath \/ NextNeighbor \/ ReturnPath \/ ReturnFound

\* the interpreter runs the one thread of find_words until it returns
SpecSearch == InitSearch /\ [][NextSearch]_vars /\ WF_vars(NextSearch)

\* the step-wise search returns what the operator find_words computes
SearchAgrees ==
    pc = "returned" => found = find_words(heap[arg], words, prefixes)

\* every active call holds a path of distinct cells that is the caller's
\* path plus one cell, so the j-th call holds j cells, at most all of them
PathsExtendByOne ==
    \A j \in 1..Len(stack) :
        LET p == stack[j].path
        IN  /\ Len(p) = j
            /\ Len(p) <= Len(heap[arg].squares)
            /\ \A a, b \in 1..Len(p) : a # b => p[a] # p[b]
            /\ j > 1 => SubSeq(p, 1, j - 1) = stack[j - 1].path

\* C12: find_words terminates: every recursive call extends the path by
\* one coordinate not already in it, the path never has more coordinates
\* than the grid has cells, and the search eventually returns, having
\* started a path from every cell.
C12_Terminates ==
    /\ []PathsExtendByOne
    /\ <>(pc = "returned" /\ stack = <<>> /\ start = Len(heap[arg].squares))

\* the search has returned from a 2 x 2 board of A's whose every cell started
\* a path, under the word list whose prefixes outlast the paths
C12_Witness ==
    /\ pc = "returned"
    /\ heap[arg].n = 2
    /\ start = 4
    /\ words = LongWords
    /\ \A c \in DOMAIN heap[arg].tiles : heap[arg].tiles[c] = <<"A">>

\* a path through every cell of a 2 x 2 board is active and its prefix is
\* still a prefix of a word
C12_FullPath ==
    /\ pc = "search"
    /\ Len(stack) = 4
    /\ stack[4].prefix \in prefixes

=============================================================================
